---------------------------- MODULE Spec2Model ----------------------------
(***************************************************************************)
(* ScrollMarks (bolknote/scroll-marks): one instance of the library in a   *)
(* document.  The instance collects the marked elements, turns their       *)
(* geometry into percentages of the total scroll height, builds the        *)
(* gradient of the scrollbar track and writes it into its style element;   *)
(* change signals (window resize, DOM mutation, element resize) are        *)
(* debounced to the next animation frame.                                  *)
(*                                                                         *)
(* Numbers.  Pixels are integers.  A percentage is an integer number of    *)
(* 1/PctUnit percent, so 100% is Full.  The scroll heights of the model    *)
(* are powers of two that divide 100 * PctUnit, so that top / H * 100 is   *)
(* computed without remainder here and without rounding in IEEE doubles.   *)
(* toFixed(2) is a rounding to hundredths of a percent, half up.  A string *)
(* that the code trims or parses is a sequence of one-character strings.   *)
(*                                                                         *)
(* Instances.  The first instance is the variables privateData .. config;  *)
(* a second one on the same page is the record other.  An instance is made *)
(* by the constructor or by ScrollMarks.autoInit(), and its config holds   *)
(* the options it was given, or their defaults.                            *)
(***************************************************************************)
EXTENDS Integers, Sequences, FiniteSets, TLC

(***************************************************************************)
(* Bounds of the model.                                                    *)
(***************************************************************************)
MaxElems == 1
GeomMaxElems == 3
OptionsMaxElems == 2
MaxHandle == 2

(***************************************************************************)
(* Program constants and units.                                            *)
(***************************************************************************)
PctUnit == 2 ^ 12
\* The default of options.scrollbarWidth.
ScrollbarWidth == 14
EpsHundredths == 1

Full == 100 * PctUnit

SP == " "
\* The defaults of options.trackColor and options.thumbColor, and the color
\* _applyStyles writes for the thumb under the pointer.
TrackColor == <<"#", "t">>
ThumbColor == <<"#", "w">>
HoverColor == <<"#", "h">>

Max(a, b) == IF a >= b THEN a ELSE b
Min(a, b) == IF a <= b THEN a ELSE b

(***************************************************************************)
(* String.prototype.trim on a sequence of characters.                      *)
(***************************************************************************)
RECURSIVE TrimLeft(_)
TrimLeft(s) ==
  IF s # <<>> /\ Head(s) = SP THEN TrimLeft(Tail(s)) ELSE s

RECURSIVE TrimRight(_)
TrimRight(s) ==
  IF s # <<>> /\ s[Len(s)] = SP THEN TrimRight(SubSeq(s, 1, Len(s) - 1)) ELSE s

Trim(s) == TrimRight(TrimLeft(s))

(***************************************************************************)
(* A JavaScript value that an option or a data attribute can hold:         *)
(* undefined, a string, a number, or NaN.                                  *)
(***************************************************************************)
Undefined == [type |-> "undefined", str |-> <<>>, num |-> 0]
NaN == [type |-> "NaN", str |-> <<>>, num |-> 0]
Str(s) == [type |-> "string", str |-> s, num |-> 0]
Num(n) == [type |-> "number", str |-> <<>>, num |-> n]

\* The operand of || that decides: '' , 0, NaN and undefined are falsy.
Truthy(v) ==
  CASE v.type = "string" -> v.str # <<>>
    [] v.type = "number" -> v.num # 0
    [] OTHER -> FALSE

\* v || default, for a string option and for a numeric one.
StringOr(v, default) == IF Truthy(v) THEN v.str ELSE default
NumberOr(v, default) == IF Truthy(v) THEN v.num ELSE default

(***************************************************************************)
(* parseInt(s, 10): leading white space is skipped, a sign is read, then   *)
(* the decimal digits up to the first character that is none; NaN when     *)
(* there is no digit.                                                      *)
(***************************************************************************)
Digits == <<"0", "1", "2", "3", "4", "5", "6", "7", "8", "9">>
IsDigit(c) == \E i \in 1..Len(Digits) : Digits[i] = c
DigitValue(c) == (CHOOSE i \in 1..Len(Digits) : Digits[i] = c) - 1

RECURSIVE LeadingDigits(_, _)
LeadingDigits(s, acc) ==
  IF s # <<>> /\ IsDigit(Head(s))
  THEN LeadingDigits(Tail(s), Len(Digits) * acc + DigitValue(Head(s)))
  ELSE acc

ParseInt(s) ==
  LET t == TrimLeft(s)
      signed == t # <<>> /\ Head(t) \in {"-", "+"}
      u == IF signed THEN Tail(t) ELSE t
  IN IF u = <<>> \/ ~IsDigit(Head(u)) THEN NaN
     ELSE IF signed /\ Head(t) = "-" THEN Num(0 - LeadingDigits(u, 0))
     ELSE Num(LeadingDigits(u, 0))

(***************************************************************************)
(* The constructor's config: each option, or its default when the option   *)
(* is falsy.                                                               *)
(***************************************************************************)
NoOptions ==
  [container |-> "undefined", trackColor |-> Undefined,
   thumbColor |-> Undefined, scrollbarWidth |-> Undefined]

Config(options) ==
  [container |-> IF options.container = "undefined" THEN "documentElement"
                 ELSE options.container,
   trackColor |-> StringOr(options.trackColor, TrackColor),
   thumbColor |-> StringOr(options.thumbColor, ThumbColor),
   scrollbarWidth |-> NumberOr(options.scrollbarWidth, ScrollbarWidth)]

DefaultConfig == Config(NoOptions)

(***************************************************************************)
(* The document.  An element has its document-relative top, its height,    *)
(* and its color attribute (hasAttr = FALSE: getAttribute returns null).   *)
(* observed: the instance's ResizeObserver observes the element.           *)
(***************************************************************************)
Elem(t, h, a, c) == [top |-> t, height |-> h, hasAttr |-> a, color |-> c, observed |-> FALSE]

\* config.selector, '[data-scroll-color]': the elements that carry the attribute.
Selected(el) == el.hasAttr

RECURSIVE QuerySelectorAll(_)
QuerySelectorAll(d) ==
  IF d = <<>> THEN <<>>
  ELSE IF Selected(Head(d)) THEN <<Head(d)>> \o QuerySelectorAll(Tail(d))
       ELSE QuerySelectorAll(Tail(d))

\* getBoundingClientRect().top: relative to the viewport.
RectTop(el, st) == el.top - st

(***************************************************************************)
(* (px / totalHeight) * 100, in units of 1/PctUnit percent: px times the   *)
(* units of one pixel.  Every total height of the model divides            *)
(* 100 * PctUnit, so the quotient is exact.                                *)
(***************************************************************************)
Percent(px, totalHeight) == px * ((100 * PctUnit) \div totalHeight)

\* The start without Math.max(0, ...).
StartPercentUnclamped(top, totalHeight) == Percent(top, totalHeight)

StartPercent(top, totalHeight) == Max(0, Percent(top, totalHeight))

EndPercent(bottom, totalHeight) == Min(Full, Percent(bottom, totalHeight))

\* !color: null or the empty string.
Falsy(el) == ~el.hasAttr \/ el.color = <<>>

\* The forEach body with startPercent <= endPercent as its test.
MarkOfKeepsEmpty(el, totalHeight, st) ==
  LET top == RectTop(el, st) + st
      startPercent == StartPercent(top, totalHeight)
      endPercent == EndPercent(top + el.height, totalHeight)
  IN IF Falsy(el) THEN <<>>
     ELSE IF startPercent <= endPercent
          THEN <<[start |-> startPercent, end |-> endPercent, color |-> Trim(el.color)]>>
          ELSE <<>>

\* The forEach body of _collectMarks: the marks one element pushes.
MarkOf(el, totalHeight, st) ==
  LET top == RectTop(el, st) + st
      startPercent == StartPercent(top, totalHeight)
      endPercent == EndPercent(top + el.height, totalHeight)
  IN IF Falsy(el) THEN <<>>
     ELSE IF startPercent < endPercent
          THEN <<[start |-> startPercent, end |-> endPercent, color |-> Trim(el.color)]>>
          ELSE <<>>

RECURSIVE PushMarks(_, _, _)
PushMarks(els, totalHeight, st) ==
  IF els = <<>> THEN <<>>
  ELSE MarkOf(Head(els), totalHeight, st) \o PushMarks(Tail(els), totalHeight, st)

(***************************************************************************)
(* marks.sort((a, b) => a.start - b.start): a stable sort (ECMAScript      *)
(* 2019), here by insertion after the last mark that does not start later. *)
(***************************************************************************)
\* An insertion before the first mark that does not start earlier.
RECURSIVE InsertBefore(_, _)
InsertBefore(sorted, m) ==
  IF sorted = <<>> THEN <<m>>
  ELSE IF Head(sorted).start >= m.start THEN <<m>> \o sorted
       ELSE <<Head(sorted)>> \o InsertBefore(Tail(sorted), m)

RECURSIVE Insert(_, _)
Insert(sorted, m) ==
  IF sorted = <<>> THEN <<m>>
  ELSE IF Head(sorted).start > m.start THEN <<m>> \o sorted
       ELSE <<Head(sorted)>> \o Insert(Tail(sorted), m)

RECURSIVE SortFrom(_, _)
SortFrom(sorted, rest) ==
  IF rest = <<>> THEN sorted ELSE SortFrom(Insert(sorted, Head(rest)), Tail(rest))

SortByStart(ms) == SortFrom(<<>>, ms)

CollectMarks(d, totalHeight, st) ==
  IF totalHeight <= 0 THEN <<>>
  ELSE SortByStart(PushMarks(QuerySelectorAll(d), totalHeight, st))

(***************************************************************************)
(* _buildGradient.  A stop is a color at a percentage in hundredths, as    *)
(* toFixed(2) prints it; the closing stop is the literal 100%.             *)
(***************************************************************************)
ToFixed2(u) == (200 * u + PctUnit) \div (2 * PctUnit)

Stop(c, u) == [color |-> c, pct |-> ToFixed2(u)]

\* mark.start > lastEnd + 1
GapBeforeWide(mark, lastEnd) == 100 * mark.start > 100 * lastEnd + 100 * PctUnit

\* mark.start > lastEnd + 0.01
GapBefore(mark, lastEnd) == 100 * mark.start > 100 * lastEnd + PctUnit

\* No closing segment, whatever lastEnd is.
GapAfterNever(lastEnd) == FALSE

\* lastEnd < 99.99
GapAfter(lastEnd) == 100 * lastEnd < 9999 * PctUnit

\* lastEnd = mark.end
LastEnd(lastEnd, mark) == mark.end

RECURSIVE StopsFrom(_, _, _)
StopsFrom(cfg, ms, lastEnd) ==
  IF ms = <<>>
  THEN IF GapAfter(lastEnd)
       THEN <<Stop(cfg.trackColor, lastEnd), [color |-> cfg.trackColor, pct |-> 10000]>>
       ELSE <<>>
  ELSE LET mark == Head(ms)
       IN (IF GapBefore(mark, lastEnd)
           THEN <<Stop(cfg.trackColor, lastEnd), Stop(cfg.trackColor, mark.start)>>
           ELSE <<>>)
          \o <<Stop(mark.color, mark.start), Stop(mark.color, mark.end)>>
          \o StopsFrom(cfg, Tail(ms), LastEnd(lastEnd, mark))

\* _buildGradient without its early return for no marks.
BuildGradientAlways(cfg, ms) ==
  [kind |-> "linear-gradient", color |-> <<>>, stops |-> StopsFrom(cfg, ms, 0)]

BuildGradient(cfg, ms) ==
  IF Len(ms) = 0 THEN [kind |-> "solid", color |-> cfg.trackColor, stops |-> <<>>]
  ELSE [kind |-> "linear-gradient", color |-> <<>>, stops |-> StopsFrom(cfg, ms, 0)]

(***************************************************************************)
(* _applyStyles: the text of the style element.                            *)
(***************************************************************************)
EmptyText == [kind |-> "empty"]

ApplyStyles(cfg, gradient) ==
  [kind |-> "rules",
   width |-> cfg.scrollbarWidth,
   track |-> gradient,
   thumb |-> cfg.thumbColor,
   radius |-> cfg.scrollbarWidth \div 2,
   hover |-> HoverColor]


(***************************************************************************)
(* update(): the marks and the style text it leaves.  live: the instance   *)
(* still has its private data and is not destroyed.                        *)
(***************************************************************************)
GetScrollHeight(bodyH, docH) == Max(bodyH, docH)

\* update() without its two early returns for a destroyed instance.
UpdateResultUnguarded(cfg, live, ms, text, d, bodyH, docH, vh, st) ==
  IF GetScrollHeight(bodyH, docH) <= vh
  THEN [marks |-> ms, text |-> EmptyText, threw |-> ~live]
  ELSE LET collected == CollectMarks(d, GetScrollHeight(bodyH, docH), st)
       IN [marks |-> collected,
           text |-> ApplyStyles(cfg, BuildGradient(cfg, collected)),
           threw |-> ~live]

\* update() that pushes the collected marks onto the ones it holds.
UpdateResultAppends(cfg, live, ms, text, d, bodyH, docH, vh, st) ==
  IF ~live THEN [marks |-> ms, text |-> text, threw |-> FALSE]
  ELSE IF GetScrollHeight(bodyH, docH) <= vh
       THEN [marks |-> ms, text |-> EmptyText, threw |-> FALSE]
       ELSE LET collected == CollectMarks(d, GetScrollHeight(bodyH, docH), st)
            IN [marks |-> ms \o collected,
                text |-> ApplyStyles(cfg, BuildGradient(cfg, collected)),
                threw |-> FALSE]

\* update() whose branch for content that does not scroll leaves the text.
UpdateResultKeepsText(cfg, live, ms, text, d, bodyH, docH, vh, st) ==
  IF ~live THEN [marks |-> ms, text |-> text, threw |-> FALSE]
  ELSE IF GetScrollHeight(bodyH, docH) <= vh
       THEN [marks |-> ms, text |-> text, threw |-> FALSE]
       ELSE LET collected == CollectMarks(d, GetScrollHeight(bodyH, docH), st)
            IN [marks |-> collected,
                text |-> ApplyStyles(cfg, BuildGradient(cfg, collected)),
                threw |-> FALSE]

UpdateResult(cfg, live, ms, text, d, bodyH, docH, vh, st) ==
  IF ~live THEN [marks |-> ms, text |-> text, threw |-> FALSE]
  ELSE IF GetScrollHeight(bodyH, docH) <= vh
       THEN [marks |-> ms, text |-> EmptyText, threw |-> FALSE]
       ELSE LET collected == CollectMarks(d, GetScrollHeight(bodyH, docH), st)
            IN [marks |-> collected,
                text |-> ApplyStyles(cfg, BuildGradient(cfg, collected)),
                threw |-> FALSE]

RECURSIVE UpdateTimes(_, _, _, _, _, _, _, _, _, _)
UpdateTimes(n, cfg, live, ms, text, d, bodyH, docH, vh, st) ==
  IF n = 0 THEN [marks |-> ms, text |-> text, threw |-> FALSE]
  ELSE LET r == UpdateResult(cfg, live, ms, text, d, bodyH, docH, vh, st)
           rest == UpdateTimes(n - 1, cfg, live, r.marks, r.text, d, bodyH, docH, vh, st)
       IN [rest EXCEPT !.threw = r.threw \/ rest.threw]

\* _observeElements: observe every element the selector matches.
ObserveElements(d, ro) ==
  IF ro # "observing" THEN d
  ELSE [i \in 1..Len(d) |->
          IF Selected(d[i]) THEN [d[i] EXCEPT !.observed = TRUE] ELSE d[i]]

\* ResizeObserver.disconnect()
Unobserve(d) == [i \in 1..Len(d) |-> [d[i] EXCEPT !.observed = FALSE]]

(***************************************************************************)
(* generateId: 'scrollmarks-' and Math.random().toString(36).substr(2, 9). *)
(* RandomPrints are base-36 prints of draws of Math.random(): 0 prints as  *)
(* "0", 0.5 as "0.i", and 0.123456789 as "0.4fzzzxjylrx", eleven digits    *)
(* after the point.  An identifier is the prefix followed by the token's   *)
(* characters.                                                             *)
(***************************************************************************)
RandomPrints ==
  { <<"0">>,
    <<"0", ".", "i">>,
    <<"0", ".", "4", "f", "z", "z", "z", "x", "j", "y", "l", "r", "x">> }

\* String.prototype.substr(start, length)
Substr(s, start, length) == SubSeq(s, start + 1, Min(Len(s), start + length))

\* The tokens generateId draws: empty for the draw 0.
Tokens == {Substr(print, 2, 9) : print \in RandomPrints}

\* An identifier that is the bare token.
GenerateIdBare(token) == token

GenerateId(token) == <<"scrollmarks-">> \o token

(***************************************************************************)
(* Inputs of the lifecycle specification.                                  *)
(***************************************************************************)
Tops == {0, 6}
Heights == {0, 4}
Colors == {<<SP, "b", SP>>}
Elems == {Elem(t, h, TRUE, c) : t \in Tops, h \in Heights, c \in Colors}
ScrollHeights == {<<16, 16>>, <<8, 4>>}
InnerHeights == {8, 32}
ScrollTops == {0}
\* typeof ResizeObserver, typeof MutationObserver: defined or not.
Platforms == {<<"observing", "observing">>, <<"null", "null">>}

RECURSIVE SeqsUpTo(_, _)
SeqsUpTo(S, n) ==
  IF n = 0 THEN {<<>>}
  ELSE LET shorter == SeqsUpTo(S, n - 1)
       IN shorter \cup {Append(s, x) : s \in {q \in shorter : Len(q) = n - 1}, x \in S}

RemoveAt(s, i) == SubSeq(s, 1, i - 1) \o SubSeq(s, i + 1, Len(s))

VARIABLES
  dom, scrollTop, bodyScrollHeight, docScrollHeight, innerHeight,
  privateData, isDestroyed, styleInHead, styleText, marks,
  resizeObserver, mutationObserver, resizeListener,
  timeoutId, rafCallbacks, rafHandle,
  lastOp, burst, frameBurst, frameUpdates, threw,
  id, config, other, returned

envVars == <<dom, scrollTop, bodyScrollHeight, docScrollHeight, innerHeight>>
instVars == <<privateData, isDestroyed, styleInHead, styleText, marks, threw, id, config>>
obsVars == <<resizeObserver, mutationObserver, resizeListener>>
rafVars == <<timeoutId, rafCallbacks, rafHandle, burst>>
frameVars == <<frameBurst, frameUpdates>>
vars == <<envVars, instVars, obsVars, rafVars, frameVars, lastOp, other, returned>>

\* The instance has been constructed: _init gave it its identifier.
Exists == id # <<>>

Live == privateData /\ ~isDestroyed

\* getMarks()
GetMarks == IF ~privateData THEN <<>> ELSE marks

\* getId(): the empty string once the private data is deleted.
GetId == IF ~privateData THEN <<>> ELSE id

\* state.styleElement.id = state.id, assigned once in _init.
StyleElementId == id

(***************************************************************************)
(* A second instance constructed on the same page.  Its debounce holds at  *)
(* most one request, pending: timeoutId is set and its callback is         *)
(* scheduled.                                                              *)
(***************************************************************************)
NoInstance ==
  [exists |-> FALSE, id |-> <<>>, privateData |-> FALSE, isDestroyed |-> FALSE,
   styleInHead |-> FALSE, styleText |-> EmptyText, marks |-> <<>>,
   resizeObserver |-> "null", mutationObserver |-> "null",
   resizeListener |-> FALSE, pending |-> FALSE, threw |-> FALSE,
   config |-> DefaultConfig]

OtherLive == other.privateData /\ ~other.isDestroyed

OtherGetId == IF ~other.privateData THEN <<>> ELSE other.id

\* update() of the second instance.
OtherUpdated(o) ==
  LET r == UpdateResult(o.config, o.privateData /\ ~o.isDestroyed, o.marks, o.styleText, dom,
                        bodyScrollHeight, docScrollHeight, innerHeight, scrollTop)
  IN [o EXCEPT !.marks = r.marks, !.styleText = r.text, !.threw = o.threw \/ r.threw]

(***************************************************************************)
(* The array a caller got from getMarks(), [...state.marks]: a new array   *)
(* whose entries are the mark objects themselves.  refs are positions in   *)
(* the marks the instance held at the call (0: an object the caller made); *)
(* alias holds while the instance still holds those objects, that is until *)
(* update() assigns newly collected marks.                                 *)
(***************************************************************************)
NoArray == [held |-> FALSE, alias |-> FALSE, refs |-> <<>>]

\* update() reaches state.marks = this._collectMarks().
MarksReplaced == Live /\ GetScrollHeight(bodyScrollHeight, docScrollHeight) > innerHeight

Released(r, replaced) == IF replaced THEN [r EXCEPT !.alias = FALSE] ELSE r

\* What a change is recorded as when no observer or listener hears it.
Unheard == IF isDestroyed THEN "late change" ELSE "change"

(***************************************************************************)
(* new ScrollMarks(): the document is any document of the bounds, the      *)
(* observers exist where the platform has them, and _init ends with one    *)
(* update().                                                               *)
(***************************************************************************)
Constructed(options, d, heights, vh, st, ro, mo) ==
  LET r == UpdateResult(Config(options), TRUE, <<>>, EmptyText, d, heights[1],
                        heights[2], vh, st)
  IN /\ config = Config(options)
     /\ dom = ObserveElements(d, ro)
     /\ scrollTop = st
     /\ bodyScrollHeight = heights[1]
     /\ docScrollHeight = heights[2]
     /\ innerHeight = vh
     /\ privateData = TRUE
     /\ isDestroyed = FALSE
     /\ styleInHead = TRUE
     /\ styleText = r.text
     /\ marks = r.marks
     /\ resizeObserver = ro
     /\ mutationObserver = mo
     /\ resizeListener = TRUE
     /\ timeoutId = 0
     /\ rafCallbacks = {}
     /\ rafHandle = 0
     /\ lastOp = "new"
     /\ burst = 0
     /\ frameBurst = 0
     /\ frameUpdates = 0
     /\ threw = r.threw

Init ==
  \E d \in SeqsUpTo(Elems, MaxElems), heights \in ScrollHeights, vh \in InnerHeights,
     st \in ScrollTops, p \in Platforms :
    /\ Constructed(NoOptions, d, heights, vh, st, p[1], p[2])
    /\ id = GenerateId(<<"i">>)
    /\ other = NoInstance
    /\ returned = NoArray

(***************************************************************************)
(* debounce(fn): the debounced function is called.  A pending request is   *)
(* cancelled and a new one is made.                                        *)
(***************************************************************************)
\* A debounce that requests a frame without cancelling the pending request.
BoundUpdateQueued ==
  /\ rafHandle < MaxHandle
  /\ rafHandle' = rafHandle + 1
  /\ rafCallbacks' = rafCallbacks \cup {rafHandle + 1}
  /\ timeoutId' = rafHandle + 1
  /\ burst' = burst + 1

BoundUpdate ==
  /\ rafHandle < MaxHandle
  /\ rafHandle' = rafHandle + 1
  /\ rafCallbacks' = (IF timeoutId # 0 THEN rafCallbacks \ {timeoutId} ELSE rafCallbacks)
                        \cup {rafHandle + 1}
  /\ timeoutId' = rafHandle + 1
  /\ burst' = burst + 1

\* A MutationObserver callback that observes the elements and stops there.
MutatedObserveOnly(d) ==
  IF mutationObserver = "observing"
  THEN /\ dom' = ObserveElements(d, resizeObserver)
       /\ UNCHANGED rafVars
  ELSE /\ dom' = d
       /\ UNCHANGED rafVars

\* The MutationObserver callback, for records that are all relevant.
Mutated(d) ==
  IF mutationObserver = "observing"
  THEN /\ dom' = ObserveElements(d, resizeObserver)
       /\ BoundUpdate
  ELSE /\ dom' = d
       /\ UNCHANGED rafVars

AppendChild ==
  /\ ~other.exists
  /\ Len(dom) < MaxElems
  /\ \E el \in Elems : Mutated(Append(dom, el))
  /\ lastOp' = IF mutationObserver = "observing" THEN "signal" ELSE Unheard
  /\ UNCHANGED <<scrollTop, bodyScrollHeight, docScrollHeight, innerHeight,
                 instVars, obsVars, frameVars, other, returned>>

RemoveChild ==
  /\ ~other.exists
  /\ \E i \in 1..Len(dom) : Mutated(RemoveAt(dom, i))
  /\ lastOp' = IF mutationObserver = "observing" THEN "signal" ELSE Unheard
  /\ UNCHANGED <<scrollTop, bodyScrollHeight, docScrollHeight, innerHeight,
                 instVars, obsVars, frameVars, other, returned>>

SetAttribute ==
  /\ ~other.exists
  /\ \E i \in 1..Len(dom), c \in Colors \cup {<<>>} :
       /\ ~(dom[i].hasAttr /\ dom[i].color = c)
       /\ Mutated([dom EXCEPT ![i].hasAttr = TRUE, ![i].color = c])
  /\ lastOp' = IF mutationObserver = "observing" THEN "signal" ELSE Unheard
  /\ UNCHANGED <<scrollTop, bodyScrollHeight, docScrollHeight, innerHeight,
                 instVars, obsVars, frameVars, other, returned>>

\* An element's box changes; the ResizeObserver reports the observed ones.
ElementResize ==
  /\ ~other.exists
  /\ \E i \in 1..Len(dom), h \in Heights :
       /\ dom[i].height # h
       /\ dom' = [dom EXCEPT ![i].height = h]
       /\ IF resizeObserver = "observing" /\ dom[i].observed
          THEN BoundUpdate /\ lastOp' = "signal"
          ELSE UNCHANGED rafVars /\ lastOp' = Unheard
  /\ UNCHANGED <<scrollTop, bodyScrollHeight, docScrollHeight, innerHeight,
                 instVars, obsVars, frameVars, other, returned>>

\* The window's resize event: every listener still registered is called.
WindowResize ==
  /\ \E vh \in InnerHeights : innerHeight' = vh
  /\ IF resizeListener THEN BoundUpdate ELSE UNCHANGED rafVars
  /\ other' = IF other.resizeListener THEN [other EXCEPT !.pending = TRUE] ELSE other
  /\ lastOp' = IF resizeListener THEN "signal" ELSE Unheard
  /\ UNCHANGED <<dom, scrollTop, bodyScrollHeight, docScrollHeight,
                 instVars, obsVars, frameVars, returned>>

\* The page's content height changes with no change the observers report.
Layout ==
  /\ \E heights \in ScrollHeights :
       /\ <<bodyScrollHeight, docScrollHeight>> # heights
       /\ bodyScrollHeight' = heights[1]
       /\ docScrollHeight' = heights[2]
  /\ lastOp' = "change"
  /\ UNCHANGED <<dom, scrollTop, innerHeight, instVars, obsVars, rafVars, frameVars,
                 other, returned>>

(***************************************************************************)
(* A display frame: every pending animation frame callback runs fn, that   *)
(* is update(), and then clears timeoutId.                                 *)
(***************************************************************************)
\* A frame on a page whose style element is under document.body: the
\* MutationObserver reports the write of update() and a frame is requested.
FrameStyleInBody ==
  LET n == Cardinality(rafCallbacks)
      r == UpdateTimes(n, config, Live, marks, styleText, dom, bodyScrollHeight,
                       docScrollHeight, innerHeight, scrollTop)
      heard == n > 0 /\ Live /\ mutationObserver = "observing" /\ rafHandle < MaxHandle
  IN /\ marks' = r.marks
     /\ styleText' = r.text
     /\ rafHandle' = IF heard THEN rafHandle + 1 ELSE rafHandle
     /\ rafCallbacks' = IF heard THEN {rafHandle + 1} ELSE {}
     /\ timeoutId' = IF heard THEN rafHandle + 1 ELSE IF n > 0 THEN 0 ELSE timeoutId
     /\ frameUpdates' = n
     /\ frameBurst' = burst
     /\ burst' = IF heard THEN 1 ELSE 0
     /\ threw' = (threw \/ r.threw)
     /\ lastOp' = "frame"
     /\ other' = IF other.pending
                 THEN [OtherUpdated(other) EXCEPT !.pending = FALSE]
                 ELSE other
     /\ returned' = Released(returned, n > 0 /\ MarksReplaced)
     /\ UNCHANGED <<envVars, privateData, isDestroyed, styleInHead, id, config, obsVars>>

Frame ==
  LET n == Cardinality(rafCallbacks)
      r == UpdateTimes(n, config, Live, marks, styleText, dom, bodyScrollHeight,
                       docScrollHeight, innerHeight, scrollTop)
  IN /\ marks' = r.marks
     /\ styleText' = r.text
     /\ rafCallbacks' = {}
     /\ timeoutId' = IF n > 0 THEN 0 ELSE timeoutId
     /\ frameUpdates' = n
     /\ frameBurst' = burst
     /\ burst' = 0
     /\ threw' = (threw \/ r.threw)
     /\ lastOp' = "frame"
     /\ other' = IF other.pending
                 THEN [OtherUpdated(other) EXCEPT !.pending = FALSE]
                 ELSE other
     /\ returned' = Released(returned, n > 0 /\ MarksReplaced)
     /\ UNCHANGED <<envVars, privateData, isDestroyed, styleInHead, id, config, obsVars,
                    rafHandle>>

\* update(), called by the page.
Update ==
  LET r == UpdateResult(config, Live, marks, styleText, dom, bodyScrollHeight,
                        docScrollHeight, innerHeight, scrollTop)
  IN /\ Exists
     /\ marks' = r.marks
     /\ styleText' = r.text
     /\ threw' = (threw \/ r.threw)
     /\ lastOp' = IF lastOp \in {"update", "update again"} THEN "update again" ELSE "update"
     /\ returned' = Released(returned, MarksReplaced)
     /\ UNCHANGED <<envVars, privateData, isDestroyed, styleInHead, id, config, obsVars,
                    rafVars, frameVars, other>>

\* destroy() without its two early returns: destructuring the missing
\* private data of a destroyed instance throws.
DestroyUnguarded ==
  /\ IF ~Live
     THEN /\ threw' = TRUE
          /\ UNCHANGED <<dom, privateData, isDestroyed, styleInHead, styleText, marks,
                         id, config, obsVars>>
     ELSE /\ isDestroyed' = TRUE
          /\ styleInHead' = FALSE
          /\ resizeObserver' = IF resizeObserver = "null" THEN "null" ELSE "disconnected"
          /\ mutationObserver' = IF mutationObserver = "null" THEN "null" ELSE "disconnected"
          /\ dom' = Unobserve(dom)
          /\ resizeListener' = FALSE
          /\ privateData' = FALSE
          /\ UNCHANGED <<styleText, marks, threw, id, config>>
  /\ lastOp' = IF ~Live THEN "destroy again" ELSE "destroy"
  /\ UNCHANGED <<scrollTop, bodyScrollHeight, docScrollHeight, innerHeight,
                 rafVars, frameVars, other, returned>>

\* destroy() that leaves the style element in the document.
DestroyKeepsStyle ==
  /\ IF ~Live
     THEN UNCHANGED <<dom, instVars, obsVars>>
     ELSE /\ isDestroyed' = TRUE
          /\ resizeObserver' = IF resizeObserver = "null" THEN "null" ELSE "disconnected"
          /\ mutationObserver' = IF mutationObserver = "null" THEN "null" ELSE "disconnected"
          /\ dom' = Unobserve(dom)
          /\ resizeListener' = FALSE
          /\ privateData' = FALSE
          /\ UNCHANGED <<styleInHead, styleText, marks, threw, id, config>>
  /\ lastOp' = IF ~Live THEN "destroy again" ELSE "destroy"
  /\ UNCHANGED <<scrollTop, bodyScrollHeight, docScrollHeight, innerHeight,
                 rafVars, frameVars, other, returned>>

\* destroy() that leaves the window's resize listener registered.
DestroyKeepsListener ==
  /\ IF ~Live
     THEN UNCHANGED <<dom, instVars, obsVars>>
     ELSE /\ isDestroyed' = TRUE
          /\ styleInHead' = FALSE
          /\ resizeObserver' = IF resizeObserver = "null" THEN "null" ELSE "disconnected"
          /\ mutationObserver' = IF mutationObserver = "null" THEN "null" ELSE "disconnected"
          /\ dom' = Unobserve(dom)
          /\ privateData' = FALSE
          /\ UNCHANGED <<resizeListener, styleText, marks, threw, id, config>>
  /\ lastOp' = IF ~Live THEN "destroy again" ELSE "destroy"
  /\ UNCHANGED <<scrollTop, bodyScrollHeight, docScrollHeight, innerHeight,
                 rafVars, frameVars, other, returned>>

\* destroy() that removes from the document every style element with the
\* instance's id, rather than the element the instance holds.
DestroyRemovesById ==
  /\ IF ~Live
     THEN UNCHANGED <<dom, instVars, obsVars, other>>
     ELSE /\ isDestroyed' = TRUE
          /\ styleInHead' = FALSE
          /\ other' = IF other.id = id THEN [other EXCEPT !.styleInHead = FALSE] ELSE other
          /\ resizeObserver' = IF resizeObserver = "null" THEN "null" ELSE "disconnected"
          /\ mutationObserver' = IF mutationObserver = "null" THEN "null" ELSE "disconnected"
          /\ dom' = Unobserve(dom)
          /\ resizeListener' = FALSE
          /\ privateData' = FALSE
          /\ UNCHANGED <<styleText, marks, threw, id, config>>
  /\ lastOp' = IF ~Live THEN "destroy again" ELSE "destroy"
  /\ UNCHANGED <<scrollTop, bodyScrollHeight, docScrollHeight, innerHeight,
                 rafVars, frameVars, returned>>

\* destroy(), called by the page.
Destroy ==
  /\ Exists
  /\ IF ~Live
     THEN UNCHANGED <<dom, instVars, obsVars>>
     ELSE /\ isDestroyed' = TRUE
          /\ styleInHead' = FALSE
          /\ resizeObserver' = IF resizeObserver = "null" THEN "null" ELSE "disconnected"
          /\ mutationObserver' = IF mutationObserver = "null" THEN "null" ELSE "disconnected"
          /\ dom' = Unobserve(dom)
          /\ resizeListener' = FALSE
          /\ privateData' = FALSE
          /\ UNCHANGED <<styleText, marks, threw, id, config>>
  /\ lastOp' = IF ~Live THEN "destroy again" ELSE "destroy"
  /\ UNCHANGED <<scrollTop, bodyScrollHeight, docScrollHeight, innerHeight,
                 rafVars, frameVars, other, returned>>

Next ==
  \/ AppendChild
  \/ RemoveChild
  \/ SetAttribute
  \/ ElementResize
  \/ WindowResize
  \/ Layout
  \/ Frame
  \/ Update
  \/ Destroy

Spec == Init /\ [][Next]_vars

\* The platform has both observers, and display frames keep occurring: a
\* pending callback is eventually run.
FairInit ==
  \E d \in SeqsUpTo(Elems, MaxElems), st \in ScrollTops :
    /\ Constructed(NoOptions, d, <<16, 16>>, 8, st, "observing", "observing")
    /\ id = GenerateId(<<"i">>)
    /\ other = NoInstance
    /\ returned = NoArray

FairSpec == FairInit /\ [][Next]_vars /\ WF_vars(Frame)

(***************************************************************************)
(* The pipeline specification: the document is any sequence of up to       *)
(* GeomMaxElems elements of GeomElems (tops that are negative or beyond    *)
(* the total height, zero heights, nested, overlapping and adjacent boxes, *)
(* gaps of one and two pixels, which at a total height of 16384 are below  *)
(* and above 0.01%, a color attribute that is blank and one that is        *)
(* empty), and the page calls update() and destroy() and changes the total *)
(* height and the scroll offset.                                           *)
(***************************************************************************)
GeomElems ==
  { Elem(0, 4, TRUE, <<"r">>),
    Elem(1, 1, TRUE, <<"b">>),
    Elem(3, 2, TRUE, <<SP, "g", SP>>),
    Elem(-2, 3, TRUE, <<"b">>),
    Elem(5, 0, TRUE, <<"r">>),
    Elem(5, 1, TRUE, <<"b">>),
    Elem(6, 16377, TRUE, <<"r">>),
    Elem(20, 4, TRUE, <<"g">>),
    Elem(-8, 4, TRUE, <<"r">>),
    Elem(8, 2, TRUE, <<SP>>),
    Elem(10, 2, TRUE, <<>>) }
GeomScrollHeights == {<<16, 16>>, <<16, 16384>>}
GeomInnerHeights == {8}
GeomScrollTops == {0, 4}

\* new ScrollMarks() and new ScrollMarks({ trackColor, thumbColor, scrollbarWidth }).
GeomOptions ==
  { NoOptions,
    [NoOptions EXCEPT !.trackColor = Str(<<"#", "1", "2", "3", "4", "5", "6">>),
                      !.thumbColor = Str(<<"#", "6", "5", "4", "3", "2", "1">>),
                      !.scrollbarWidth = Num(9)] }

\* Documents of up to GeomMaxElems elements under the default options, and
\* of up to OptionsMaxElems under the others.
GeomInit ==
  \E options \in GeomOptions, heights \in GeomScrollHeights,
     vh \in GeomInnerHeights, st \in GeomScrollTops :
    \E d \in SeqsUpTo(GeomElems,
                      IF options = NoOptions THEN GeomMaxElems ELSE OptionsMaxElems) :
    /\ Constructed(options, d, heights, vh, st, "observing", "observing")
    /\ id = GenerateId(<<"i">>)
    /\ other = NoInstance
    /\ returned = NoArray

GeomLayout ==
  /\ \E heights \in GeomScrollHeights :
       /\ <<bodyScrollHeight, docScrollHeight>> # heights
       /\ bodyScrollHeight' = heights[1]
       /\ docScrollHeight' = heights[2]
  /\ lastOp' = "change"
  /\ UNCHANGED <<dom, scrollTop, innerHeight, instVars, obsVars, rafVars, frameVars,
                 other, returned>>

\* The page is scrolled: every element's viewport-relative top moves.
Scroll ==
  /\ \E st \in GeomScrollTops :
       /\ scrollTop # st
       /\ scrollTop' = st
  /\ lastOp' = "change"
  /\ UNCHANGED <<dom, bodyScrollHeight, docScrollHeight, innerHeight,
                 instVars, obsVars, rafVars, frameVars, other, returned>>

GeomNext ==
  \/ GeomLayout
  \/ Scroll
  \/ Update
  \/ Destroy

GeomSpec == GeomInit /\ [][GeomNext]_vars

(***************************************************************************)
(* The two-instance specification: the page constructs a second instance   *)
(* next to the first, each with an identifier drawn by generateId, over a  *)
(* document that stays as it is; the page calls update() and destroy() on  *)
(* either, the window is resized and frames occur.                         *)
(***************************************************************************)
PairDocs == {<<>>, <<Elem(0, 4, TRUE, <<SP, "b", SP>>)>>}

(***************************************************************************)
(* options.container: the default, document.documentElement, or an element *)
(* of the page, a box whose content is BoxScrollHeight high and which      *)
(* holds the elements that lie within BoxTop .. BoxTop + BoxScrollHeight.  *)
(* The library stores the option and never reads it.                       *)
(***************************************************************************)
Containers == {"documentElement", "box"}
BoxTop == 4
BoxScrollHeight == 8
InBox(el) == el.top >= BoxTop /\ el.top + el.height <= BoxTop + BoxScrollHeight

PairInit ==
  \E d \in PairDocs, heights \in ScrollHeights, vh \in InnerHeights,
     st \in ScrollTops, p \in Platforms, tok \in Tokens :
    /\ Constructed(NoOptions, d, heights, vh, st, p[1], p[2])
    /\ id = GenerateId(tok)
    /\ other = NoInstance
    /\ returned = NoArray

\* The second instance as new ScrollMarks(options) leaves it.
OtherConstructed(options, tok) ==
  OtherUpdated(
    [NoInstance EXCEPT
       !.exists = TRUE,
       !.config = Config(options),
       !.id = GenerateId(tok),
       !.privateData = TRUE,
       !.styleInHead = TRUE,
       !.resizeObserver =
          IF resizeObserver = "null" THEN "null" ELSE "observing",
       !.mutationObserver =
          IF mutationObserver = "null" THEN "null" ELSE "observing",
       !.resizeListener = TRUE])

\* new ScrollMarks({ container }), a second time on the page.
ConstructOther ==
  /\ Exists
  /\ ~other.exists
  /\ \E tok \in Tokens, c \in Containers :
       other' = OtherConstructed([NoOptions EXCEPT !.container = c], tok)
  /\ lastOp' = "new other"
  /\ UNCHANGED <<envVars, instVars, obsVars, rafVars, frameVars, returned>>

(***************************************************************************)
(* ScrollMarks.autoInit(): null unless document.body has the attribute     *)
(* data-scrollmarks-auto, else a new instance whose options are the body's *)
(* data attributes.  A body is its data attributes at the call: a data     *)
(* attribute that is absent reads as undefined.                            *)
(***************************************************************************)
Body(auto, track, thumb, width) ==
  [auto |-> auto, track |-> track, thumb |-> thumb, width |-> width]

Bodies ==
  { Body(FALSE, Undefined, Undefined, Undefined),
    Body(FALSE, Undefined, Undefined, Str(<<"2", "0">>)),
    Body(TRUE, Undefined, Undefined, Undefined),
    Body(TRUE, Str(<<"#", "1", "2", "3", "4", "5", "6">>),
         Str(<<"#", "6", "5", "4", "3", "2", "1">>), Str(<<"2", "0">>)),
    Body(TRUE, Str(<<"#", "1", "2", "3", "4", "5", "6">>),
         Str(<<"#", "6", "5", "4", "3", "2", "1">>), Str(<<SP, "2", "0", "p", "x">>)),
    Body(TRUE, Str(<<>>), Undefined, Str(<<"w", "i", "d", "e">>)),
    Body(TRUE, Undefined, Undefined, Str(<<"0">>)),
    Body(TRUE, Undefined, Undefined, Str(<<>>)) }

\* The options autoInit passes to the constructor.
AutoInitOptions(body) ==
  [container |-> "undefined",
   trackColor |-> body.track,
   thumbColor |-> body.thumb,
   scrollbarWidth |-> IF Truthy(body.width) THEN ParseInt(body.width.str)
                      ELSE Undefined]

\* new ScrollMarks(options) on a page that has no instance yet.
Construct(options, tok, ro, mo) ==
  LET r == UpdateResult(Config(options), TRUE, <<>>, EmptyText, dom, bodyScrollHeight,
                        docScrollHeight, innerHeight, scrollTop)
  IN /\ config' = Config(options)
     /\ id' = GenerateId(tok)
     /\ dom' = ObserveElements(dom, ro)
     /\ privateData' = TRUE
     /\ isDestroyed' = FALSE
     /\ styleInHead' = TRUE
     /\ styleText' = r.text
     /\ marks' = r.marks
     /\ threw' = r.threw
     /\ resizeObserver' = ro
     /\ mutationObserver' = mo
     /\ resizeListener' = TRUE
     /\ UNCHANGED <<scrollTop, bodyScrollHeight, docScrollHeight, innerHeight,
                    rafVars, frameVars, other, returned>>

\* autoInit(), called by the page: the instance it returns is the page's
\* first when there is none, and its second otherwise.
AutoInit ==
  \E body \in Bodies :
    IF ~body.auto
    THEN /\ lastOp' = "autoInit null"
         /\ UNCHANGED <<envVars, instVars, obsVars, rafVars, frameVars, other, returned>>
    ELSE IF ~Exists
    THEN /\ \E tok \in Tokens, p \in Platforms :
              Construct(AutoInitOptions(body), tok, p[1], p[2])
         /\ lastOp' = "autoInit"
    ELSE /\ ~other.exists
         /\ \E tok \in Tokens : other' = OtherConstructed(AutoInitOptions(body), tok)
         /\ lastOp' = "autoInit other"
         /\ UNCHANGED <<envVars, instVars, obsVars, rafVars, frameVars, returned>>

\* update() of the second instance, called by the page.
UpdateOther ==
  /\ other.exists
  /\ other' = OtherUpdated(other)
  /\ lastOp' = "update other"
  /\ UNCHANGED <<envVars, instVars, obsVars, rafVars, frameVars, returned>>

\* destroy() of the second instance, called by the page.
DestroyOther ==
  /\ other.exists
  /\ other' = IF ~OtherLive THEN other
              ELSE [other EXCEPT
                      !.isDestroyed = TRUE,
                      !.styleInHead = FALSE,
                      !.resizeObserver =
                         IF other.resizeObserver = "null" THEN "null" ELSE "disconnected",
                      !.mutationObserver =
                         IF other.mutationObserver = "null" THEN "null" ELSE "disconnected",
                      !.resizeListener = FALSE,
                      !.privateData = FALSE]
  /\ lastOp' = "destroy other"
  /\ UNCHANGED <<envVars, instVars, obsVars, rafVars, frameVars, returned>>

PairNext ==
  \/ WindowResize
  \/ Frame
  \/ Update
  \/ Destroy
  \/ ConstructOther
  \/ AutoInit
  \/ UpdateOther
  \/ DestroyOther

PairSpec == PairInit /\ [][PairNext]_vars

(***************************************************************************)
(* The page-load specification: the page starts with no instance, and      *)
(* calls autoInit(), which may return null; the page calls update() and    *)
(* destroy() on what it got, the window is resized and frames occur.       *)
(***************************************************************************)
\* No constructor has run: there is no style element, observer or listener.
NotConstructed ==
  /\ config = DefaultConfig
  /\ id = <<>>
  /\ privateData = FALSE
  /\ isDestroyed = FALSE
  /\ styleInHead = FALSE
  /\ styleText = EmptyText
  /\ marks = <<>>
  /\ threw = FALSE
  /\ resizeObserver = "null"
  /\ mutationObserver = "null"
  /\ resizeListener = FALSE

LoadInit ==
  \E d \in PairDocs, heights \in ScrollHeights, vh \in InnerHeights, st \in ScrollTops :
    /\ NotConstructed
    /\ dom = d
    /\ scrollTop = st
    /\ bodyScrollHeight = heights[1]
    /\ docScrollHeight = heights[2]
    /\ innerHeight = vh
    /\ timeoutId = 0
    /\ rafCallbacks = {}
    /\ rafHandle = 0
    /\ lastOp = "load"
    /\ burst = 0
    /\ frameBurst = 0
    /\ frameUpdates = 0
    /\ other = NoInstance
    /\ returned = NoArray

AutoNext ==
  \/ AutoInit
  \/ WindowResize
  \/ Frame
  \/ Update
  \/ Destroy
  \/ UpdateOther
  \/ DestroyOther

AutoSpec == LoadInit /\ [][AutoNext]_vars

(***************************************************************************)
(* The caller specification: the page calls getMarks() and changes the     *)
(* array it got (push, pop, reverse) and the entries of the array (start,  *)
(* end, color), and calls update() and destroy(); the content's height     *)
(* changes.                                                                *)
(***************************************************************************)
MaxReturned == 3

CopyDocs ==
  { <<>>,
    <<Elem(0, 4, TRUE, <<"r">>)>>,
    <<Elem(0, 4, TRUE, <<"r">>), Elem(6, 4, TRUE, <<"b">>)>>,
    <<Elem(6, 4, TRUE, <<"b">>), Elem(0, 4, TRUE, <<"r">>)>> }

CopyInit ==
  \E d \in CopyDocs, heights \in ScrollHeights, st \in ScrollTops :
    /\ Constructed(NoOptions, d, heights, 8, st, "observing", "observing")
    /\ id = GenerateId(<<"i">>)
    /\ other = NoInstance
    /\ returned = NoArray

\* getMarks(): [] without private data, else a new array of the same objects.
GetMarksCall ==
  /\ returned' = [held |-> TRUE,
                  alias |-> privateData,
                  refs |-> [i \in 1..Len(GetMarks) |-> i]]
  /\ lastOp' = "getMarks"
  /\ UNCHANGED <<envVars, instVars, obsVars, rafVars, frameVars, other>>

\* The caller's array only: the instance's array is another one.
CallerPush ==
  /\ returned.held
  /\ Len(returned.refs) < MaxReturned
  /\ returned' = [returned EXCEPT !.refs = Append(@, 0)]
  /\ lastOp' = "caller push"
  /\ UNCHANGED <<envVars, instVars, obsVars, rafVars, frameVars, other>>

CallerPop ==
  /\ returned.held
  /\ Len(returned.refs) > 0
  /\ returned' = [returned EXCEPT !.refs = SubSeq(@, 1, Len(@) - 1)]
  /\ lastOp' = "caller pop"
  /\ UNCHANGED <<envVars, instVars, obsVars, rafVars, frameVars, other>>

CallerReverse ==
  /\ returned.held
  /\ Len(returned.refs) >= 2
  /\ returned' = [returned EXCEPT
                    !.refs = [i \in 1..Len(@) |-> @[Len(@) + 1 - i]]]
  /\ lastOp' = "caller reverse"
  /\ UNCHANGED <<envVars, instVars, obsVars, rafVars, frameVars, other>>

\* The object at position i of the instance's marks gets a field written.
Written(ms, i, field) ==
  CASE field = "start" -> [ms EXCEPT ![i].start = 0]
    [] field = "end" -> [ms EXCEPT ![i].end = Full]
    [] field = "color" -> [ms EXCEPT ![i].color = <<"x">>]

\* returned[k].start = 0, returned[k].end = 100 or returned[k].color = 'x':
\* a write to the object, which the instance holds too while alias.
CallerWrite ==
  /\ returned.held
  /\ \E k \in 1..Len(returned.refs), field \in {"start", "end", "color"} :
       marks' = IF returned.alias /\ returned.refs[k] # 0
                THEN Written(marks, returned.refs[k], field)
                ELSE marks
  /\ lastOp' = "caller write"
  /\ UNCHANGED <<envVars, privateData, isDestroyed, styleInHead, styleText, threw, id,
                 config, obsVars, rafVars, frameVars, other, returned>>

CopyNext ==
  \/ GetMarksCall
  \/ CallerPush
  \/ CallerPop
  \/ CallerReverse
  \/ CallerWrite
  \/ Update
  \/ Destroy
  \/ Layout

CopySpec == CopyInit /\ [][CopyNext]_vars

(***************************************************************************)
(*                              Properties                                 *)
(***************************************************************************)
TotalHeight == GetScrollHeight(bodyScrollHeight, docScrollHeight)
Scrollable == TotalHeight > innerHeight
Updates == {"update", "update again"}
\* The operations that construct the instance: _init ends with update().
Constructions == {"new", "autoInit"}

\* What update() would leave if it ran now.
UpdateNow ==
  UpdateResult(config, Live, marks, styleText, dom, bodyScrollHeight, docScrollHeight,
               innerHeight, scrollTop)

\* The style text holds a gradient, the one built from the marks held.
HasGradient == styleText.kind = "rules" /\ styleText.track.kind = "linear-gradient"

\* The segments of a stop list: stops 2i-1 and 2i are a segment's two ends.
Segments(stops) ==
  [i \in 1..(Len(stops) \div 2) |->
     [color |-> stops[2 * i - 1].color,
      from |-> stops[2 * i - 1].pct,
      to |-> stops[2 * i].pct]]

TrackSegments == Segments(styleText.track.stops)

\* Each mark starts at or after the end of the one before it.
Disjoint(ms) == \A i \in 1..(Len(ms) - 1) : ms[i + 1].start >= ms[i].end

(* C1: once the instance is destroyed, no step (an update() called by the
   page, a frame callback scheduled before destroy(), or anything else)
   changes the style element's presence or text or the marks held, none
   raises an error, the instance stays destroyed, and getMarks() is empty. *)
C1_DestroyedIsInert ==
  [][isDestroyed =>
       /\ isDestroyed'
       /\ styleInHead' = styleInHead /\ ~styleInHead'
       /\ styleText' = styleText
       /\ marks' = marks
       /\ ~threw'
       /\ GetMarks' = <<>>]_vars

\* A frame callback scheduled before destroy() ran update() after it, on an
\* instance whose MarkSet was not empty.
C1_Witness ==
  /\ isDestroyed
  /\ lastOp = "frame" /\ frameUpdates = 1
  /\ Len(marks) > 0
  /\ GetMarks = <<>>

(* C2: after destroy() no recomputation is pending: the debounce holds no
   request and no frame callback of the instance is scheduled. *)
C2_DestroyCancelsPending ==
  isDestroyed => (timeoutId = 0 /\ rafCallbacks = {})

(* C3: at most one recomputation is pending, it is the one the debounce
   holds, and a frame before which one or more signals arrived runs update()
   exactly once (a frame before which none arrived runs none). *)
C3_OnePendingOneUpdate ==
  /\ Cardinality(rafCallbacks) <= 1
  /\ rafCallbacks = (IF timeoutId = 0 THEN {} ELSE {timeoutId})
  /\ (burst >= 1) = (timeoutId # 0)
  /\ frameUpdates = (IF frameBurst >= 1 THEN 1 ELSE 0)

\* A frame ran one update() after a burst of two signals.
C3_Witness ==
  /\ lastOp = "frame"
  /\ frameBurst >= 2
  /\ frameUpdates = 1

(* C4: a change signal that reaches an active instance is eventually
   followed by a frame whose callback ran update(), after which the style
   text is what update() gives for the document of that moment, unless the
   instance is destroyed first. *)
C4_SignalLeadsToUpdate ==
  (lastOp = "signal" /\ Live)
    ~> (isDestroyed
        \/ (lastOp = "frame" /\ frameUpdates >= 1 /\ styleText = UpdateNow.text))

\* A frame callback ran update() on an active instance and left a gradient.
C4_Witness ==
  /\ Live
  /\ lastOp = "frame" /\ frameUpdates = 1 /\ frameBurst >= 1
  /\ mutationObserver = "observing"
  /\ HasGradient

(* C5: right after an update() on an active instance, getMarks() equals the
   marks collected from the document as it is. *)
C5_UpdateReplacesMarks ==
  (lastOp \in Updates /\ Live) => GetMarks = CollectMarks(dom, TotalHeight, scrollTop)

(* C6, as claimed: the segments of the gradient span 0..100 and each segment
   starts within 0.01 of where the previous one ended. *)
C6_Contiguous ==
  HasGradient =>
    LET segs == TrackSegments
    IN /\ segs[1].from <= EpsHundredths
       /\ segs[Len(segs)].to >= 10000 - EpsHundredths
       /\ \A i \in 1..(Len(segs) - 1) :
            /\ segs[i + 1].from - segs[i].to <= EpsHundredths
            /\ segs[i].to - segs[i + 1].from <= EpsHundredths

(* C6, amended: the segments of the gradient span 0..100 with no gaps: the
   first starts within 0.01 of 0, the last ends within 0.01 of 100, and no
   segment starts more than 0.01 after the end of the previous one; when the
   marks are pairwise disjoint, none starts more than 0.01 before it
   either. *)
C6_NoGaps ==
  HasGradient =>
    LET segs == TrackSegments
    IN /\ Len(segs) >= 1
       /\ segs[1].from >= 0
       /\ segs[1].from <= EpsHundredths
       /\ segs[Len(segs)].to <= 10000
       /\ segs[Len(segs)].to >= 10000 - EpsHundredths
       /\ \A i \in 1..(Len(segs) - 1) :
            /\ segs[i + 1].from - segs[i].to <= EpsHundredths
            /\ Disjoint(marks) => segs[i].to - segs[i + 1].from <= EpsHundredths

\* A gradient of three marks with a track segment between two of them, an
\* overlap, and a gap below 0.01 that gets no track segment.
C6_Witness ==
  /\ Live /\ lastOp \in Updates
  /\ HasGradient
  /\ Len(marks) = 3
  /\ ~Disjoint(marks)
  /\ \E i \in 1..Len(TrackSegments) : TrackSegments[i].color = config.trackColor
  /\ \E i \in 1..(Len(TrackSegments) - 1) :
       TrackSegments[i + 1].from - TrackSegments[i].to = EpsHundredths

(* C7: no track-colored segment of the gradient covers more than 0.01 of the
   interval of any mark, and every mark has a segment of its color over its
   interval. *)
C7_TrackOnlyOutsideMarks ==
  HasGradient =>
    LET segs == TrackSegments
    IN /\ \A i \in 1..Len(segs), k \in 1..Len(marks) :
            segs[i].color = config.trackColor =>
              Min(segs[i].to, ToFixed2(marks[k].end))
                - Max(segs[i].from, ToFixed2(marks[k].start)) <= EpsHundredths
       /\ \A k \in 1..Len(marks) : \E i \in 1..Len(segs) :
            /\ segs[i].color = marks[k].color
            /\ segs[i].from = ToFixed2(marks[k].start)
            /\ segs[i].to = ToFixed2(marks[k].end)

(* C8: every mark getMarks() returns has 0 <= start < end <= 100. *)
C8_MarksInRange ==
  \A i \in 1..Len(GetMarks) :
    /\ 0 <= GetMarks[i].start
    /\ GetMarks[i].start < GetMarks[i].end
    /\ GetMarks[i].end <= Full

\* Three elements, one starting above the page, one starting below its end
\* and one reaching below its end: two marks, clamped to 0 and to 100.
C8_Witness ==
  /\ Live /\ lastOp \in Updates
  /\ Len(dom) = 3 /\ Len(GetMarks) = 2
  /\ \E i \in 1..3 : dom[i].top < 0
  /\ \E i \in 1..3 : dom[i].top > TotalHeight
  /\ \E i \in 1..3 : dom[i].top < TotalHeight /\ dom[i].top + dom[i].height > TotalHeight
  /\ GetMarks[1].start = 0
  /\ GetMarks[2].end = Full

\* The marks of ms that start at s, in the order of ms.
StartingAt(ms, s) ==
  LET Test(m) == m.start = s IN SelectSeq(ms, Test)

(* C9: getMarks() is sorted ascending by start, and right after the marks
   were collected the marks with one start are in the document order of
   their elements. *)
C9_SortedStable ==
  /\ \A i \in 1..(Len(GetMarks) - 1) : GetMarks[i].start <= GetMarks[i + 1].start
  /\ (Live /\ Scrollable /\ lastOp \in Updates \cup Constructions) =>
       LET pushed == PushMarks(QuerySelectorAll(dom), TotalHeight, scrollTop)
       IN /\ Len(GetMarks) = Len(pushed)
          /\ \A k \in 1..Len(pushed) :
               StartingAt(GetMarks, pushed[k].start) = StartingAt(pushed, pushed[k].start)

\* Three marks whose document order is not their order by start, two of them
\* with the same start and different ends.
C9_Witness ==
  /\ Live /\ lastOp \in Updates
  /\ Len(GetMarks) = 3
  /\ GetMarks # PushMarks(QuerySelectorAll(dom), TotalHeight, scrollTop)
  /\ \E i \in 1..2 :
       /\ GetMarks[i].start = GetMarks[i + 1].start
       /\ GetMarks[i] # GetMarks[i + 1]

(* C10: an update() that follows an update() with no change in between
   leaves the style text and the marks of an active instance as they were. *)
C10_UpdateIdempotent ==
  [][(lastOp \in Updates /\ lastOp' = "update again" /\ Live)
       => (styleText' = styleText /\ marks' = marks)]_vars

\* update() was called twice in a row on an active instance with a gradient.
C10_Witness ==
  /\ Live
  /\ lastOp = "update again"
  /\ HasGradient
  /\ Len(marks) > 0

\* update() has just run: called by the page, by the constructor, or by the
\* callback of a frame.
UpdateRan == lastOp \in Updates \cup Constructions \/ (lastOp = "frame" /\ frameUpdates >= 1)

(* C11: after an update() on an active instance whose total height does not
   exceed the viewport height, the style element's text is empty, whatever
   it held and whatever elements are marked, and no error was raised. *)
C11_FlatContentClearsStyle ==
  (UpdateRan /\ Live /\ ~Scrollable) => (styleText = EmptyText /\ ~threw)

\* update() was called on content that no longer scrolls, with a marked
\* element in the document and the marks of an earlier gradient still held.
C11_Witness ==
  /\ Live /\ lastOp \in Updates /\ ~Scrollable
  /\ styleText = EmptyText
  /\ Len(marks) > 0
  /\ \E i \in 1..Len(dom) : ~Falsy(dom[i]) /\ dom[i].height > 0

(* C12: every mark getMarks() returns has a color that is not empty and is
   trimmed: an element whose color attribute is missing, empty or blank
   produces no mark. *)
C12_BlankColorNoMark ==
  \A i \in 1..Len(GetMarks) :
    /\ GetMarks[i].color # <<>>
    /\ Trim(GetMarks[i].color) = GetMarks[i].color

\* The digits of base 36.
Base36 ==
  { "0", "1", "2", "3", "4", "5", "6", "7", "8", "9", "a", "b", "c", "d", "e", "f", "g",
    "h", "i", "j", "k", "l", "m", "n", "o", "p", "q", "r", "s", "t", "u", "v", "w", "x",
    "y", "z" }

\* An identifier of the form scrollmarks-<token>: the prefix and a token of
\* at most nine digits of base 36, which may be none.
WellFormedId(i) ==
  /\ i # <<>>
  /\ i[1] = "scrollmarks-"
  /\ Len(i) - 1 <= 9
  /\ \A k \in 2..Len(i) : i[k] \in Base36

\* The token of an identifier has a digit: /^scrollmarks-[a-z0-9]+$/.
TokenNotEmpty(i) == WellFormedId(i) /\ Len(i) >= 2

(* C13, as claimed: getId() returns a string of the form
   scrollmarks-<token>, and no step, destroy() included, changes what it
   returns. *)
C13_IdStable ==
  [][TokenNotEmpty(GetId) /\ GetId' = GetId]_vars

(* C13, amended: while the instance is active getId() returns one string,
   the prefix scrollmarks- followed by a token of at most nine digits of
   base 36 (none when the draw of Math.random() was 0), whatever update(),
   signal or frame occurs; from destroy() on it returns the empty string,
   at every call. *)
C13_IdStableWhileActive ==
  [][/\ Live => WellFormedId(GetId)
     /\ (Live /\ Live') => GetId' = GetId
     /\ ~Live' => GetId' = <<>>
     /\ id' = id]_vars

\* A frame callback ran update() on an active instance whose token is empty,
\* next to a second instance whose token has the nine digits substr keeps.
C13_Witness ==
  /\ Live /\ other.exists
  /\ lastOp = "frame" /\ frameUpdates = 1
  /\ WellFormedId(GetId) /\ ~TokenNotEmpty(GetId)
  /\ Len(OtherGetId) = 10
  /\ GetId = StyleElementId

(* C14: two instances that are active on one page have different
   identifiers, hence style elements with different ids. *)
C14_DistinctIds ==
  (Live /\ OtherLive) => GetId # OtherGetId

(* C15: a destroy() on a destroyed instance raises no error and changes
   nothing (the document, the observers, the listener, the pending requests
   and the instance are as the first destroy() left them), and no step makes
   a destroyed instance active again. *)
C15_DestroyIdempotent ==
  [][/\ (isDestroyed /\ lastOp' = "destroy again") =>
          /\ UNCHANGED <<envVars, instVars, obsVars, rafVars, frameVars, other>>
          /\ ~threw'
     /\ ~Live => (~Live' /\ isDestroyed')]_vars

\* destroy() was called again on an instance whose observers the first
\* destroy() disconnected, with a frame request still pending.
C15_Witness ==
  /\ lastOp = "destroy again"
  /\ isDestroyed /\ ~styleInHead
  /\ resizeObserver = "disconnected" /\ mutationObserver = "disconnected"
  /\ rafCallbacks # {}

(* C16: the instance's style element, whose id is what getId() returns, is
   in the document while the instance is active, from the constructor's
   return on, and is not in the document in any state after destroy(); no
   update(), called by the page or by a frame callback, adds or removes
   it. *)
C16_StyleElementLifetime ==
  [][/\ Live => (styleInHead /\ StyleElementId = GetId)
     /\ Live' => (styleInHead' /\ StyleElementId' = GetId')
     /\ isDestroyed' => ~styleInHead'
     /\ lastOp' \in Updates \cup {"frame"} => styleInHead' = styleInHead]_vars

\* update() was called on a destroyed instance whose style element held
\* rules when it was removed: the element stays out of the document.
C16_Witness ==
  /\ isDestroyed
  /\ lastOp \in Updates
  /\ ~styleInHead
  /\ styleText # EmptyText

(* C17: after an update() on an active instance with scrollable content the
   track background is a linear-gradient exactly when getMarks() is not
   empty; when it is empty the track background is the track color alone. *)
C17_GradientIffMarks ==
  (UpdateRan /\ Live /\ Scrollable) =>
    /\ styleText.kind = "rules"
    /\ HasGradient <=> Len(GetMarks) > 0
    /\ Len(GetMarks) = 0 =>
         styleText.track = [kind |-> "solid", color |-> config.trackColor, stops |-> <<>>]

\* update() ran on a scrollable page whose two matched elements yield no
\* mark: the track is the track color.
C17_Witness ==
  /\ Live /\ lastOp \in Updates /\ Scrollable
  /\ Len(QuerySelectorAll(dom)) = 2
  /\ GetMarks = <<>>
  /\ styleText.kind = "rules"
  /\ styleText.track.kind = "solid"
  /\ styleText.track.color = config.trackColor
  /\ config.trackColor # TrackColor

\* clamp(x, lo, hi) of the specification.
Clamp(x, lo, hi) == Max(lo, Min(hi, x))

\* The mark the specification's geometry step gives for an element that has
\* a color: both percentages clamped to 0..100, kept when start < end.
ClampedMarkOf(el, totalHeight, st) ==
  LET top == (el.top - st) + st
      s == Clamp(Percent(top, totalHeight), 0, Full)
      e == Clamp(Percent(top + el.height, totalHeight), 0, Full)
  IN IF Falsy(el) \/ ~(s < e) THEN <<>>
     ELSE <<[start |-> s, end |-> e, color |-> Trim(el.color)]>>

RECURSIVE ClampedPush(_, _, _)
ClampedPush(els, totalHeight, st) ==
  IF els = <<>> THEN <<>>
  ELSE ClampedMarkOf(Head(els), totalHeight, st) \o ClampedPush(Tail(els), totalHeight, st)

(* C18: the marks collected are those of the two-sided clamp: an element
   with a color is kept exactly when clamp(top/H*100, 0, 100) is below
   clamp((top+height)/H*100, 0, 100), and the start and end of its mark are
   these two values, for tops that are negative, inside and beyond H. *)
C18_TwoSidedClamp ==
  (UpdateRan /\ Live /\ Scrollable) =>
    /\ \A i \in 1..Len(dom) :
         MarkOf(dom[i], TotalHeight, scrollTop) = ClampedMarkOf(dom[i], TotalHeight, scrollTop)
    /\ GetMarks = SortByStart(ClampedPush(QuerySelectorAll(dom), TotalHeight, scrollTop))

\* An element that starts beyond the total height, one that ends above the
\* page and one that starts above it and ends inside: one mark, from 0.
C18_Witness ==
  /\ Live /\ lastOp \in Updates /\ Scrollable
  /\ Len(dom) = 3
  /\ \E i \in 1..3 : ~Falsy(dom[i]) /\ dom[i].top > TotalHeight
  /\ \E i \in 1..3 : ~Falsy(dom[i]) /\ dom[i].top + dom[i].height < 0
  /\ \E i \in 1..3 : ~Falsy(dom[i]) /\ dom[i].top < 0 /\ dom[i].top + dom[i].height > 0
  /\ Len(GetMarks) = 1
  /\ GetMarks[1].start = 0

\* The gap between two percentages is wider than 0.01.
WideGap(from, to) == 100 * (to - from) > PctUnit

\* Where the mark before mark i ends: 0 for the first mark.
PrevEnd(ms, i) == IF i = 1 THEN 0 ELSE ms[i - 1].end

\* The segments the specification gives mark i of a disjoint MarkSet: a
\* track-colored one over the gap before it when the gap is wide, and its own.
SegmentsOfMark(ms, i) ==
  (IF WideGap(PrevEnd(ms, i), ms[i].start)
   THEN <<[color |-> config.trackColor,
           from |-> ToFixed2(PrevEnd(ms, i)),
           to |-> ToFixed2(ms[i].start)]>>
   ELSE <<>>)
  \o <<[color |-> ms[i].color,
        from |-> ToFixed2(ms[i].start),
        to |-> ToFixed2(ms[i].end)]>>

RECURSIVE SegmentsUpTo(_, _)
SegmentsUpTo(ms, n) ==
  IF n = 0 THEN <<>> ELSE SegmentsUpTo(ms, n - 1) \o SegmentsOfMark(ms, n)

ExpectedSegments(ms) ==
  SegmentsUpTo(ms, Len(ms))
  \o (IF WideGap(ms[Len(ms)].end, Full)
      THEN <<[color |-> config.trackColor, from |-> ToFixed2(ms[Len(ms)].end), to |-> 10000]>>
      ELSE <<>>)

(* C19: for marks that are sorted and pairwise disjoint the gradient's stop
   percentages are in non-decreasing order and its segments are exactly one
   segment per mark, in the mark's color over its interval, and one
   track-colored segment for every gap wider than 0.01: before the first
   mark, between two marks, and after the last one up to 100. *)
C19_DisjointSegments ==
  (HasGradient /\ Disjoint(marks)) =>
    /\ TrackSegments = ExpectedSegments(marks)
    /\ 2 * Len(TrackSegments) = Len(styleText.track.stops)
    /\ \A i \in 1..(Len(styleText.track.stops) - 1) :
         styleText.track.stops[i].pct <= styleText.track.stops[i + 1].pct

\* One mark inside the page: a track segment from 0 to its start, its own
\* segment, and a track segment from its end to 100.
C19_Witness ==
  /\ Live /\ lastOp \in Updates
  /\ HasGradient
  /\ Len(marks) = 1
  /\ Len(TrackSegments) = 3
  /\ TrackSegments[1].color = config.trackColor /\ TrackSegments[1].from = 0
  /\ TrackSegments[1].to = TrackSegments[2].from
  /\ TrackSegments[2].color = marks[1].color /\ marks[1].color # <<>>
  /\ TrackSegments[2].to = TrackSegments[3].from
  /\ TrackSegments[3].color = config.trackColor /\ TrackSegments[3].to = 10000

(* C20: in every state after destroy() no observer is observing and the
   resize listener is not registered, and no step (a window resize, a change
   of the document, a change of an element's size) requests a frame for the
   instance: the requests made are the ones made before destroy(). *)
C20_DestroyDetaches ==
  [][isDestroyed =>
       /\ resizeObserver # "observing" /\ mutationObserver # "observing"
       /\ ~resizeListener
       /\ \A i \in 1..Len(dom) : ~dom[i].observed
       /\ rafHandle' = rafHandle
       /\ rafCallbacks' \subseteq rafCallbacks
       /\ timeoutId' \in {timeoutId, 0}
       /\ burst' \in {burst, 0}
       /\ lastOp' # "signal"]_vars

\* A change that would have been a signal arrived after destroy() on a
\* platform with both observers, and no request is pending.
C20_Witness ==
  /\ isDestroyed
  /\ lastOp = "late change"
  /\ resizeObserver = "disconnected" /\ mutationObserver = "disconnected"
  /\ Len(dom) > 0
  /\ rafCallbacks = {} /\ timeoutId = 0

(* C21: with two instances on one page, an update() or a destroy() of one
   leaves the other's style element (its presence and its text), marks,
   identifier, pending request and observers as they were, in both
   directions, also when the two identifiers are equal. *)
C21_InstancesIsolated ==
  [][/\ lastOp' \in Updates \cup {"destroy", "destroy again"} => other' = other
     /\ lastOp' \in {"update other", "destroy other"} =>
          UNCHANGED <<privateData, isDestroyed, styleInHead, styleText, marks, id,
                      threw, obsVars, rafVars, dom>>]_vars

\* The first instance was destroyed next to a second, active one that has
\* the same identifier and a request pending: the second keeps its style
\* element, its listener and its request.
C21_Witness ==
  /\ lastOp = "destroy" /\ isDestroyed
  /\ OtherLive /\ other.id = id
  /\ other.styleInHead /\ other.resizeListener /\ other.pending
  /\ other.styleText # EmptyText

\* The steps of a caller on the array getMarks() returned.
CallerOps == {"caller push", "caller pop", "caller reverse", "caller write"}

(* C22: nothing a caller does to the array getMarks() returned (adding,
   removing or reordering entries, writing the start, end or color of an
   entry) changes what getMarks() returns next or the marks the instance
   holds. *)
C22_DefensiveCopy ==
  [][lastOp' \in CallerOps => (GetMarks' = GetMarks /\ marks' = marks)]_vars

\* The elements inside a container, and the container's scrollable height.
ContainerElems(d, c) == IF c = "box" THEN SelectSeq(d, InBox) ELSE d
ContainerScrollHeight(c) == IF c = "box" THEN BoxScrollHeight ELSE TotalHeight

(* C23: the marks of an instance are collected from the matching elements
   inside its configured container, with percentages of the container's
   scrollable height: right after an update() of the second instance on
   scrollable content, its marks are those of its container. *)
C23_ContainerIsTracked ==
  (OtherLive /\ lastOp \in {"new other", "update other"} /\ Scrollable) =>
    other.marks = CollectMarks(ContainerElems(dom, other.config.container),
                               ContainerScrollHeight(other.config.container), scrollTop)

(* C24: a recomputation requests no frame: neither an update() called by
   the page nor a frame's callback adds a request, a frame leaves nothing
   pending and runs update() at most once, and a frame that follows a frame
   with no signal in between runs no update() and leaves the marks and the
   style text as they are. *)
C24_Quiescence ==
  [][/\ lastOp' \in Updates \cup {"frame"} =>
          (rafHandle' = rafHandle /\ rafCallbacks' \subseteq rafCallbacks)
     /\ lastOp' = "frame" =>
          (rafCallbacks' = {} /\ timeoutId' = 0 /\ burst' = 0 /\ frameUpdates' <= 1)
     /\ (lastOp = "frame" /\ lastOp' = "frame") =>
          (frameUpdates' = 0 /\ marks' = marks /\ styleText' = styleText)]_vars

\* After signals a frame ran update() and wrote a gradient; the next frame,
\* with no signal in between, ran nothing and nothing is pending.
C24_Witness ==
  /\ Live /\ mutationObserver = "observing" /\ resizeListener
  /\ lastOp = "frame"
  /\ frameUpdates = 0 /\ frameBurst = 0
  /\ rafHandle >= 1
  /\ rafCallbacks = {} /\ timeoutId = 0
  /\ HasGradient

=============================================================================
